---- MODULE Spec2Model ----
(***************************************************************************)
(* A model of shared_ptr.h: control_block with its two variants (cb_ptr,   *)
(* cb_obj), shared_ptr, weak_ptr and make_shared.                          *)
(*                                                                         *)
(* The client's live shared_ptr objects and its live weak_ptr objects are   *)
(* kept as two bags of handle values (cb, ptr): handle objects with equal  *)
(* fields are interchangeable.  Spec and SpecLock take every public        *)
(* operation as one action, executed from start to end by a single thread, *)
(* temporaries included.  SpecReset adds reset(p, deleter) statement by    *)
(* statement, SpecRace runs lock() and ~shared_ptr() statement by statement*)
(* in two threads, and SpecNested lets the value of a block hold a         *)
(* weak_ptr on its own block.                                              *)
(***************************************************************************)
EXTENDS Integers, Sequences, FiniteSets, Bags

\* ------------------------------------------------------------------ bounds
MaxBlocks == 2      \* control blocks that can ever be allocated
MaxHandles == 3     \* handle objects (shared_ptr and weak_ptr) the client keeps alive at once
MaxTeardowns == 2   \* cap on delete_object runs per block (promotions of an expired observer)

Blocks == 1..MaxBlocks

\* ---------------------------------------------------------------- pointers
\* A pointer value is a tagged pair: nullptr, the separately allocated value
\* that was handed to the constructor creating block b (raw pointers are
\* fresh, one per block), the inline storage of a cb_obj block, and a
\* sub-object address that is handed to the aliasing constructor.
nullptr == <<"null", 0>>
Heap(b) == <<"heap", b>>
Inline(b) == <<"inline", b>>
Sub(b) == <<"sub", b>>

\* The control-block pointer of a handle is a block id, 0 for nullptr.
nullcb == 0

VARIABLES
    cbs,            \* cbs[b]: the control block b (state, kind, ref_cnt, weak_cnt, ptr)
    deleterCalls,   \* deleterCalls[b]: how often the deleter ran on the raw pointer of block b
    argDeleted,     \* how often the last operation ran the deleter on a pointer that no
                    \* block took over (the argument of a constructor that failed)
    events,         \* events[b]: allocation, delete_object and free events of block b, in order
    sp,             \* the bag of the client's live shared_ptr objects
    wp,             \* the bag of the client's live weak_ptr objects
    last,           \* the name of the operation executed last
    inflight,       \* a reset(p, deleter) that is between two of its steps
    thr,            \* the positions of two threads inside lock() and ~shared_ptr()
    held            \* held[b]: the weak_ptr members on block b inside the value of block b

vars == <<cbs, deleterCalls, argDeleted, events, sp, wp, last, inflight, thr, held>>

\* Bags of handle objects.
Add(B, h) == B (+) SetToBag({h})

Remove(B, h) == B (-) SetToBag({h})

\* The client can create one more handle object.
Room == BagCardinality(sp) + BagCardinality(wp) < MaxHandles

\* Memory before any allocation.
NoBlock == [state |-> "unalloc", kind |-> "none", ref_cnt |-> 0, weak_cnt |-> 0, ptr |-> nullptr]

\* The heap at the start of an operation, as one value that the operation
\* threads through: arg counts the deleter runs on the operation's own
\* pointer argument.
Mem == [cbs |-> cbs, del |-> deleterCalls, ev |-> events, arg |-> 0]

SetMem(m) ==
    /\ cbs' = m.cbs
    /\ deleterCalls' = m.del
    /\ events' = m.ev
    /\ argDeleted' = m.arg

\* Number of delete_object runs on block b recorded in memory m.
Teardowns(m, b) == Cardinality({i \in 1..Len(m.ev[b]) : m.ev[b][i] = "delete_object"})

Frees(m, b) == Cardinality({i \in 1..Len(m.ev[b]) : m.ev[b][i] = "free"})

Allocs(m, b) == Cardinality({i \in 1..Len(m.ev[b]) : m.ev[b][i] = "alloc"})

\* ------------------------------------------------------------ control_block
\* ref_cnt and weak_cnt are size_t.  A decrement is only ever made by a
\* handle that holds a reference (TypeOK: no count falls below 0), so the
\* wrap-around of size_t never comes into play.
add_ref(m, b) == [m EXCEPT !.cbs[b].ref_cnt = @ + 1]

add_weak(m, b) == [m EXCEPT !.cbs[b].weak_cnt = @ + 1]

release_weak(m, b) == [m EXCEPT !.cbs[b].weak_cnt = @ - 1]

cb_use_count(m, b) == m.cbs[b].ref_cnt

weak_count(m, b) == m.cbs[b].weak_cnt

\* cb_ptr::delete_object: the deleter runs on the stored pointer.
cb_ptr_delete_object(m, b) ==
    [m EXCEPT !.del[b] = @ + 1,
              !.ev[b] = Append(@, "delete_object")]

\* Variant: the teardown of the inline value also frees its storage.
cb_obj_delete_object_frees(m, b) ==
    [m EXCEPT !.ev[b] = @ \o <<"delete_object", "free">>]

\* cb_obj::delete_object: the value's destructor runs in place.
cb_obj_delete_object(m, b) ==
    [m EXCEPT !.ev[b] = Append(@, "delete_object")]

\* The virtual call.
delete_object(m, b) ==
    IF m.cbs[b].kind = "cb_ptr" THEN cb_ptr_delete_object(m, b)
                                ELSE cb_obj_delete_object(m, b)

release_ref(m, b) ==
    LET m1 == [m EXCEPT !.cbs[b].ref_cnt = @ - 1]
    IN  IF m1.cbs[b].ref_cnt = 0 THEN delete_object(m1, b) ELSE m1

\* delete cb
delete_cb(m, b) ==
    [m EXCEPT !.cbs[b].state = "freed", !.ev[b] = Append(@, "free")]

\* The lowest block id not yet allocated, 0 when there is none.
FreshBlock(m) ==
    IF \E b \in Blocks : m.cbs[b].state = "unalloc"
    THEN CHOOSE b \in Blocks : /\ m.cbs[b].state = "unalloc"
                               /\ \A c \in Blocks : m.cbs[c].state = "unalloc" => b <= c
    ELSE 0

\* new cb_ptr(p, deleter): ref_cnt = 1, weak_cnt = 0.
new_cb_ptr(m, b) ==
    [m EXCEPT !.cbs[b] = [state |-> "live", kind |-> "cb_ptr", ref_cnt |-> 1,
                          weak_cnt |-> 0, ptr |-> Heap(b)],
              !.ev[b] = Append(@, "alloc")]

\* new cb_obj<U>(args...): one allocation holding the block and the value.
new_cb_obj(m, b) ==
    [m EXCEPT !.cbs[b] = [state |-> "live", kind |-> "cb_obj", ref_cnt |-> 1,
                          weak_cnt |-> 0, ptr |-> Inline(b)],
              !.ev[b] = Append(@, "alloc")]

\* Variant: the allocation of a block whose value failed to construct is
\* never given back.
new_cb_obj_throws_leaks(m, b) ==
    [m EXCEPT !.cbs[b] = [state |-> "live", kind |-> "cb_obj", ref_cnt |-> 1,
                          weak_cnt |-> 0, ptr |-> Inline(b)],
              !.ev[b] = Append(@, "alloc")]

\* new cb_obj<U>(args...) with Y's constructor throwing: operator new has
\* allocated, the placement new in cb_obj's constructor throws, and the
\* new-expression gives the allocation back before the exception goes on.
\* No cb_obj object ever existed, so the block has no counts and no value.
new_cb_obj_throws(m, b) ==
    [m EXCEPT !.cbs[b] = [state |-> "released", kind |-> "cb_obj", ref_cnt |-> 0,
                          weak_cnt |-> 0, ptr |-> nullptr],
              !.ev[b] = @ \o <<"alloc", "dealloc">>]

\* cb_obj::get
cb_obj_get(m, b) == m.cbs[b].ptr

\* --------------------------------------------------------------- shared_ptr
\* Constructors yield the new handle h and the memory m after them.
shared_default == [cb |-> nullcb, ptr |-> nullptr]

\* Variant: the block is freed as soon as the strong count is 0.
shared_dtor_ignores_weak(m, h) ==
    IF h.cb # nullcb
    THEN LET m1 == release_ref(m, h.cb)
         IN  IF cb_use_count(m1, h.cb) = 0 THEN delete_cb(m1, h.cb) ELSE m1
    ELSE m

shared_dtor(m, h) ==
    IF h.cb # nullcb
    THEN LET m1 == release_ref(m, h.cb)
         IN  IF cb_use_count(m1, h.cb) = 0 /\ weak_count(m1, h.cb) = 0
             THEN delete_cb(m1, h.cb)
             ELSE m1
    ELSE m

\* shared_ptr(Y *p, D deleter), the allocation succeeding.
shared_from_raw(m, b) ==
    [h |-> [cb |-> b, ptr |-> Heap(b)], m |-> new_cb_ptr(m, b)]

\* Variant: the catch block rethrows without running the deleter.
shared_from_raw_catch_no_deleter(m) == m

\* shared_ptr(Y *p, D deleter), new throwing: the catch block runs deleter(p).
shared_from_raw_catch(m) == [m EXCEPT !.arg = @ + 1]

get(h) == h.ptr

operator_bool(h) == h.ptr # nullptr

use_count(m, h) == IF h.cb # nullcb THEN cb_use_count(m, h.cb) ELSE 0

\* Variant: the alias shares the block without add_ref.
shared_alias_no_add_ref(m, r, p) == [h |-> [cb |-> r.cb, ptr |-> nullptr], m |-> m]

\* shared_ptr(shared_ptr<Y> const &sp, T *ptr): "ptr = ptr" assigns the
\* parameter to itself, the member keeps its default initializer.
shared_alias(m, r, p) ==
    [h |-> [cb |-> r.cb, ptr |-> nullptr],
     m |-> IF r.cb # nullcb THEN add_ref(m, r.cb) ELSE m]

\* Variant: the copy shares the block without add_ref.
shared_copy_no_add_ref(m, r) == [h |-> [cb |-> r.cb, ptr |-> r.ptr], m |-> m]

shared_copy(m, r) ==
    [h |-> [cb |-> r.cb, ptr |-> r.ptr],
     m |-> IF r.cb # nullcb THEN add_ref(m, r.cb) ELSE m]

\* shared_ptr(const weak_ptr<Y> &r)
shared_from_weak(m, r) ==
    [h |-> [cb |-> r.cb, ptr |-> r.ptr],
     m |-> IF r.cb # nullcb THEN add_ref(m, r.cb) ELSE m]

\* Variant: the move constructor leaves r as it was.
shared_move_keeps_source(r) == [h |-> [cb |-> r.cb, ptr |-> r.ptr], r |-> r]

\* shared_ptr(shared_ptr &&r): the new handle h and what is left in r.
shared_move(r) ==
    [h |-> [cb |-> r.cb, ptr |-> r.ptr],
     r |-> [cb |-> nullcb, ptr |-> nullptr]]

\* make_shared
make_shared(m, b) ==
    LET m1 == new_cb_obj(m, b)
    IN  [h |-> [cb |-> b, ptr |-> cb_obj_get(m1, b)], m |-> m1]

\* make_shared with the value's constructor throwing: the exception leaves
\* from the first statement, before any handle is made.
make_shared_throws(m, b) == new_cb_obj_throws(m, b)

\* ----------------------------------------------------------------- weak_ptr
weak_default == [cb |-> nullcb, ptr |-> nullptr]

weak_dtor(m, h) ==
    IF h.cb # nullcb
    THEN LET m1 == release_weak(m, h.cb)
         IN  IF cb_use_count(m1, h.cb) = 0 /\ weak_count(m1, h.cb) = 0
             THEN delete_cb(m1, h.cb)
             ELSE m1
    ELSE m

\* Variant: the observer built from an owner takes a strong reference.
weak_from_shared_adds_ref(m, r) ==
    [h |-> [cb |-> r.cb, ptr |-> r.ptr],
     m |-> IF r.cb # nullcb THEN add_ref(m, r.cb) ELSE m]

weak_from_shared(m, r) ==
    [h |-> [cb |-> r.cb, ptr |-> r.ptr],
     m |-> IF r.cb # nullcb THEN add_weak(m, r.cb) ELSE m]

\* Variant: the copy of an observer does not count itself.
weak_copy_no_add_weak(m, r) == [h |-> [cb |-> r.cb, ptr |-> r.ptr], m |-> m]

weak_copy(m, r) ==
    [h |-> [cb |-> r.cb, ptr |-> r.ptr],
     m |-> IF r.cb # nullcb THEN add_weak(m, r.cb) ELSE m]

weak_move(r) ==
    [h |-> [cb |-> r.cb, ptr |-> r.ptr],
     r |-> [cb |-> nullcb, ptr |-> nullptr]]

\* Variant: lock() promotes without looking at the strong count.
lock_unchecked(m, w) ==
    IF w.cb # nullcb THEN shared_from_weak(m, w) ELSE [h |-> shared_default, m |-> m]

lock(m, w) ==
    IF w.cb # nullcb /\ cb_use_count(m, w.cb) # 0
    THEN shared_from_weak(m, w)
    ELSE [h |-> shared_default, m |-> m]

\* ------------------------------------------------------------------- state
\* No reset(p, deleter) is between two of its steps.
NoFlight == [op |-> "none", this |-> shared_default, tmp |-> shared_default]

\* Neither thread is inside lock() or ~shared_ptr().  lw and ltd are the
\* observer of the latest lock() and the number of delete_object runs on
\* its block at the moment of its check; db is the block of the shared_ptr
\* that is being destroyed.
IdleThreads == [lk |-> "idle", lw |-> weak_default, ltd |-> 0, dt |-> "idle", db |-> nullcb]

Init ==
    /\ cbs = [b \in Blocks |-> NoBlock]
    /\ deleterCalls = [b \in Blocks |-> 0]
    /\ argDeleted = 0
    /\ events = [b \in Blocks |-> << >>]
    /\ sp = EmptyBag
    /\ wp = EmptyBag
    /\ last = "init"
    /\ inflight = NoFlight
    /\ thr = IdleThreads
    /\ held = [b \in Blocks |-> 0]

\* The live shared_ptr / weak_ptr objects, as values.
Owners == BagToSet(sp)

Observers == BagToSet(wp)

\* a and b can be two different objects of bag B.
Distinct(B, a, b) == a # b \/ CopiesIn(a, B) >= 2

\* No operation is part-way through, and the operation that runs now is
\* executed from start to end.
Sequential ==
    /\ inflight.op = "none"
    /\ thr.lk = "idle" /\ thr.dt = "idle"
    /\ UNCHANGED <<inflight, thr, held>>

\* ------------------------------------------------- shared_ptr operations
\* shared_ptr<T> d;
SharedDefault ==
    /\ Sequential
    /\ Room
    /\ sp' = Add(sp, shared_default)
    /\ last' = "shared_default"
    /\ SetMem(Mem)
    /\ UNCHANGED wp

\* shared_ptr<T> d(p, deleter); the control block is allocated.
SharedFromRaw ==
    /\ Sequential
    /\ Room
    /\ FreshBlock(Mem) # 0
    /\ LET r == shared_from_raw(Mem, FreshBlock(Mem))
       IN  /\ SetMem(r.m)
           /\ sp' = Add(sp, r.h)
    /\ last' = "shared_from_raw"
    /\ UNCHANGED wp

\* shared_ptr<T> d(p, deleter); new throws, the exception leaves the
\* constructor and no object d exists.
SharedFromRawThrow ==
    /\ Sequential
    /\ Room
    /\ SetMem(shared_from_raw_catch(Mem))
    /\ last' = "shared_from_raw_throw"
    /\ UNCHANGED <<sp, wp>>

\* shared_ptr<T> d = make_shared<T>(args...);
MakeShared ==
    /\ Sequential
    /\ Room
    /\ FreshBlock(Mem) # 0
    /\ LET r == make_shared(Mem, FreshBlock(Mem))
       IN  /\ SetMem(r.m)
           /\ sp' = Add(sp, r.h)
    /\ last' = "make_shared"
    /\ UNCHANGED wp

\* make_shared<U>(args...); U's constructor throws.
MakeSharedThrow ==
    /\ Sequential
    /\ Room
    /\ FreshBlock(Mem) # 0
    /\ SetMem(make_shared_throws(Mem, FreshBlock(Mem)))
    /\ last' = "make_shared_throw"
    /\ UNCHANGED <<sp, wp>>

\* shared_ptr<T> d(s);
SharedCopy(s) ==
    /\ Sequential
    /\ Room
    /\ LET r == shared_copy(Mem, s)
       IN  /\ SetMem(r.m)
           /\ sp' = Add(sp, r.h)
    /\ last' = "shared_copy"
    /\ UNCHANGED wp

\* shared_ptr<T> d(std::move(s));
SharedMove(s) ==
    /\ Sequential
    /\ Room
    /\ LET r == shared_move(s)
       IN  sp' = Add(Add(Remove(sp, s), r.r), r.h)
    /\ last' = "shared_move"
    /\ SetMem(Mem)
    /\ UNCHANGED wp

\* The target handed to the aliasing constructor: the address of a
\* sub-object, neither null nor the address any handle reports.
AliasTarget(s) == Sub(s.cb)

\* shared_ptr<T> d(s, target);
SharedAlias(s) ==
    /\ Sequential
    /\ Room
    /\ LET r == shared_alias(Mem, s, AliasTarget(s))
       IN  /\ SetMem(r.m)
           /\ sp' = Add(sp, r.h)
    /\ last' = "shared_alias"
    /\ UNCHANGED wp

\* shared_ptr<T> d(w);  The promotion of an expired observer is capped.
SharedFromWeak(w) ==
    /\ Sequential
    /\ Room
    /\ w.cb # nullcb /\ cb_use_count(Mem, w.cb) = 0
         => Teardowns(Mem, w.cb) < MaxTeardowns
    /\ LET r == shared_from_weak(Mem, w)
       IN  /\ SetMem(r.m)
           /\ sp' = Add(sp, r.h)
    /\ last' = "shared_from_weak"
    /\ UNCHANGED wp

\* s goes out of scope.
SharedDtor(s) ==
    /\ Sequential
    /\ SetMem(shared_dtor(Mem, s))
    /\ sp' = Remove(sp, s)
    /\ last' = "shared_dtor"
    /\ UNCHANGED wp

\* Variant: a = b releases the reference of a first and copies b afterwards.
SharedAssignReleaseFirst(a, b, self) ==
    /\ Sequential
    /\ IF self THEN a = b ELSE Distinct(sp, a, b)
    /\ LET m1 == shared_dtor(Mem, a)
           tmp == shared_copy(m1, b)
       IN  /\ sp' = Add(Remove(sp, a), tmp.h)
           /\ SetMem(tmp.m)
    /\ last' = IF self THEN "shared_assign_self" ELSE "shared_assign"
    /\ UNCHANGED wp

\* a = b;  shared_ptr(other).swap(*this), then the temporary dies.  self
\* tells whether a and b are one object.
SharedAssign(a, b, self) ==
    /\ Sequential
    /\ IF self THEN a = b ELSE Distinct(sp, a, b)
    /\ LET tmp == shared_copy(Mem, b)
       IN  /\ sp' = Add(Remove(sp, a), tmp.h)
           /\ SetMem(shared_dtor(tmp.m, a))
    /\ last' = IF self THEN "shared_assign_self" ELSE "shared_assign"
    /\ UNCHANGED wp

\* a = std::move(b);  shared_ptr(std::move(other)).swap(*this), then the
\* temporary dies.  When a and b are one object the move constructor has
\* emptied *this before the swap.
SharedMoveAssign(a, b, self) ==
    /\ Sequential
    /\ IF self THEN a = b ELSE Distinct(sp, a, b)
    /\ LET tmp == shared_move(b)
           this0 == IF self THEN tmp.r ELSE a
       IN  /\ sp' = IF self THEN Add(Remove(sp, a), tmp.h)
                            ELSE Add(Add(Remove(Remove(sp, a), b), tmp.r), tmp.h)
           /\ SetMem(shared_dtor(Mem, this0))
    /\ last' = IF self THEN "shared_move_assign_self" ELSE "shared_move_assign"
    /\ UNCHANGED wp

\* Variant: reset() clears the fields and releases nothing.
ResetDropsFields(a) ==
    /\ Sequential
    /\ sp' = Add(Remove(sp, a), shared_default)
    /\ SetMem(Mem)
    /\ last' = "reset"
    /\ UNCHANGED wp

\* a.reset();  shared_ptr().swap(*this), then the temporary dies.
Reset(a) ==
    /\ Sequential
    /\ sp' = Add(Remove(sp, a), shared_default)
    /\ SetMem(shared_dtor(Mem, a))
    /\ last' = "reset"
    /\ UNCHANGED wp

\* a.reset(p, deleter);  shared_ptr(point, deleter).swap(*this).
ResetPtr(a) ==
    /\ Sequential
    /\ FreshBlock(Mem) # 0
    /\ LET tmp == shared_from_raw(Mem, FreshBlock(Mem))
       IN  /\ sp' = Add(Remove(sp, a), tmp.h)
           /\ SetMem(shared_dtor(tmp.m, a))
    /\ last' = "reset_ptr"
    /\ UNCHANGED wp

\* Variant: reset(p, deleter) lets go of the present block before it builds
\* the new one.
ResetPtrThrowReleaseFirst(a) ==
    /\ Sequential
    /\ SetMem(shared_from_raw_catch(shared_dtor(Mem, a)))
    /\ sp' = Add(Remove(sp, a), shared_default)
    /\ last' = "reset_ptr_throw"
    /\ UNCHANGED wp

\* a.reset(p, deleter); new throws inside the temporary's constructor.
ResetPtrThrow(a) ==
    /\ Sequential
    /\ SetMem(shared_from_raw_catch(Mem))
    /\ last' = "reset_ptr_throw"
    /\ UNCHANGED <<sp, wp>>

\* Variant: reset(p, deleter) releases the block of *this while it builds the
\* temporary.
ResetPtrConstructReleaseFirst(a) ==
    /\ inflight.op = "none" /\ thr.lk = "idle" /\ thr.dt = "idle"
    /\ FreshBlock(Mem) # 0
    /\ LET tmp == shared_from_raw(shared_dtor(Mem, a), FreshBlock(Mem))
       IN  /\ SetMem(tmp.m)
           /\ inflight' = [op |-> "constructed", this |-> a, tmp |-> tmp.h]
    /\ last' = "reset_ptr_construct"
    /\ UNCHANGED <<sp, wp, thr, held>>

\* a.reset(p, deleter), first step: the temporary shared_ptr(point, deleter)
\* is constructed.  The temporary is not one of the client's objects: it is
\* kept in inflight.tmp, and *this in inflight.this.
ResetPtrConstruct(a) ==
    /\ inflight.op = "none" /\ thr.lk = "idle" /\ thr.dt = "idle"
    /\ FreshBlock(Mem) # 0
    /\ LET tmp == shared_from_raw(Mem, FreshBlock(Mem))
       IN  /\ SetMem(tmp.m)
           /\ inflight' = [op |-> "constructed", this |-> a, tmp |-> tmp.h]
    /\ last' = "reset_ptr_construct"
    /\ UNCHANGED <<sp, wp, thr, held>>

\* Second step: swap(*this) exchanges the fields of the temporary and *this.
ResetPtrSwap ==
    /\ inflight.op = "constructed"
    /\ sp' = Add(Remove(sp, inflight.this), inflight.tmp)
    /\ inflight' = [op |-> "swapped", this |-> inflight.tmp, tmp |-> inflight.this]
    /\ SetMem(Mem)
    /\ last' = "reset_ptr_swap"
    /\ UNCHANGED <<wp, thr, held>>

\* Third step: the temporary, now holding the former fields of *this, is
\* destroyed at the end of the full expression.
ResetPtrDestroyTmp ==
    /\ inflight.op = "swapped"
    /\ SetMem(shared_dtor(Mem, inflight.tmp))
    /\ inflight' = NoFlight
    /\ last' = "reset_ptr_destroy_tmp"
    /\ UNCHANGED <<sp, wp, thr, held>>

\* --------------------------------------------------- weak_ptr operations
WeakDefault ==
    /\ Sequential
    /\ Room
    /\ wp' = Add(wp, weak_default)
    /\ last' = "weak_default"
    /\ SetMem(Mem)
    /\ UNCHANGED sp

\* weak_ptr<T> d(s);
WeakFromShared(s) ==
    /\ Sequential
    /\ Room
    /\ LET r == weak_from_shared(Mem, s)
       IN  /\ SetMem(r.m)
           /\ wp' = Add(wp, r.h)
    /\ last' = "weak_from_shared"
    /\ UNCHANGED sp

\* weak_ptr<T> d(w);
WeakCopy(w) ==
    /\ Sequential
    /\ Room
    /\ LET r == weak_copy(Mem, w)
       IN  /\ SetMem(r.m)
           /\ wp' = Add(wp, r.h)
    /\ last' = "weak_copy"
    /\ UNCHANGED sp

\* weak_ptr<T> d(std::move(w));
WeakMove(w) ==
    /\ Sequential
    /\ Room
    /\ LET r == weak_move(w)
       IN  wp' = Add(Add(Remove(wp, w), r.r), r.h)
    /\ last' = "weak_move"
    /\ SetMem(Mem)
    /\ UNCHANGED sp

\* w goes out of scope.
WeakDtor(w) ==
    /\ Sequential
    /\ SetMem(weak_dtor(Mem, w))
    /\ wp' = Remove(wp, w)
    /\ last' = "weak_dtor"
    /\ UNCHANGED sp

\* a = b;  weak_ptr(other).swap(*this), then the temporary dies.
WeakAssign(a, b, self) ==
    /\ Sequential
    /\ IF self THEN a = b ELSE Distinct(wp, a, b)
    /\ LET tmp == weak_copy(Mem, b)
       IN  /\ wp' = Add(Remove(wp, a), tmp.h)
           /\ SetMem(weak_dtor(tmp.m, a))
    /\ last' = IF self THEN "weak_assign_self" ELSE "weak_assign"
    /\ UNCHANGED sp

\* a = std::move(b);  weak_ptr(std::move(other)).swap(*this), then the
\* temporary dies.
WeakMoveAssign(a, b, self) ==
    /\ Sequential
    /\ IF self THEN a = b ELSE Distinct(wp, a, b)
    /\ LET tmp == weak_move(b)
           this0 == IF self THEN tmp.r ELSE a
       IN  /\ wp' = IF self THEN Add(Remove(wp, a), tmp.h)
                            ELSE Add(Add(Remove(Remove(wp, a), b), tmp.r), tmp.h)
           /\ SetMem(weak_dtor(Mem, this0))
    /\ last' = IF self THEN "weak_move_assign_self" ELSE "weak_move_assign"
    /\ UNCHANGED sp

\* shared_ptr<T> d = w.lock();
Lock(w) ==
    /\ Sequential
    /\ Room
    /\ LET r == lock(Mem, w)
       IN  /\ SetMem(r.m)
           /\ sp' = Add(sp, r.h)
    /\ last' = "lock"
    /\ UNCHANGED wp

\* ------------------------------------------------ two unsynchronized threads
\* One thread runs w.lock() and the other destroys a shared_ptr, statement
\* by statement and in any interleaving.  Nothing in the code orders the two:
\* the counts are plain size_t fields.  A single ++ or -- of a count is taken
\* as one step.
\*
\* lock(), lines 116-117 and 121: the tests of cb and of use_count().  When
\* they fail the empty shared_ptr is returned at once.
LockCheck(w) ==
    /\ inflight.op = "none" /\ thr.lk = "idle"
    /\ Room
    /\ w.cb # nullcb => Teardowns(Mem, w.cb) < MaxTeardowns
    /\ IF w.cb # nullcb /\ cb_use_count(Mem, w.cb) # 0
       THEN /\ thr' = [thr EXCEPT !.lk = "promote", !.lw = w,
                                  !.ltd = Teardowns(Mem, w.cb)]
            /\ sp' = sp
       ELSE /\ thr' = [thr EXCEPT !.lw = w, !.ltd = 0]
            /\ sp' = Add(sp, shared_default)
    /\ SetMem(Mem)
    /\ last' = "lock_check"
    /\ UNCHANGED <<wp, inflight, held>>

\* Variant: the promotion looks at the strong count again.
LockPromoteRechecks ==
    /\ thr.lk = "promote"
    /\ LET r == lock(Mem, thr.lw)
       IN  /\ SetMem(r.m)
           /\ sp' = Add(sp, r.h)
    /\ thr' = [thr EXCEPT !.lk = "idle"]
    /\ last' = "lock_promote"
    /\ UNCHANGED <<wp, inflight, held>>

\* lock(), line 118: return shared_ptr<T>(*this), which does add_ref.
LockPromote ==
    /\ thr.lk = "promote"
    /\ LET r == shared_from_weak(Mem, thr.lw)
       IN  /\ SetMem(r.m)
           /\ sp' = Add(sp, r.h)
    /\ thr' = [thr EXCEPT !.lk = "idle"]
    /\ last' = "lock_promote"
    /\ UNCHANGED <<wp, inflight, held>>

\* ~shared_ptr() of a non-empty s, lines 161-162 and 21: ref_cnt--.  The
\* object s is no longer one of the client's handles.
DtorDecrement(s) ==
    /\ inflight.op = "none" /\ thr.dt = "idle"
    /\ s.cb # nullcb
    /\ SetMem([Mem EXCEPT !.cbs[s.cb].ref_cnt = @ - 1])
    /\ sp' = Remove(sp, s)
    /\ thr' = [thr EXCEPT !.dt = "test", !.db = s.cb]
    /\ last' = "dtor_decrement"
    /\ UNCHANGED <<wp, inflight, held>>

\* release_ref, lines 22-24: if (ref_cnt == 0) delete_object().
DtorTest ==
    /\ thr.dt = "test"
    /\ SetMem(IF cb_use_count(Mem, thr.db) = 0 THEN delete_object(Mem, thr.db) ELSE Mem)
    /\ thr' = [thr EXCEPT !.dt = "check"]
    /\ last' = "dtor_test"
    /\ UNCHANGED <<sp, wp, inflight, held>>

\* ~shared_ptr(), lines 163-165: delete cb when both counts read 0.
DtorCheck ==
    /\ thr.dt = "check"
    /\ SetMem(IF cb_use_count(Mem, thr.db) = 0 /\ weak_count(Mem, thr.db) = 0
              THEN delete_cb(Mem, thr.db)
              ELSE Mem)
    /\ thr' = [thr EXCEPT !.dt = "idle", !.db = nullcb]
    /\ last' = "dtor_check"
    /\ UNCHANGED <<sp, wp, inflight, held>>

\* ------------------------------------------- a value that observes itself
\* The value type has a weak_ptr member, which the client can point at the
\* value's own control block (p->self = p).  held[b] is 1 when the member of
\* the value of block b is set.  The member is destroyed with the value,
\* inside delete_object.
\*
\* The member's destructor, run at the end of the value's destructor.
payload_members_dtor(m, b, n) ==
    IF n = 0 THEN m ELSE weak_dtor(m, [cb |-> b, ptr |-> m.cbs[b].ptr])

\* delete_object when the value has n members set.
delete_object_nested(m, b, n) == payload_members_dtor(delete_object(m, b), b, n)

release_ref_nested(m, b, n) ==
    LET m1 == [m EXCEPT !.cbs[b].ref_cnt = @ - 1]
    IN  IF m1.cbs[b].ref_cnt = 0 THEN delete_object_nested(m1, b, n) ELSE m1

\* ~shared_ptr(), lines 160-167.  After release_ref the destructor reads
\* cb->use_count() and cb->weak_count().  When the block was freed inside
\* release_ref these are reads of freed memory: the event is recorded, and
\* what they yield is open; zeros tells whether both read as 0, in which case
\* delete cb runs on the freed block.
shared_dtor_nested(m, h, n, zeros) ==
    IF h.cb # nullcb
    THEN LET m1 == release_ref_nested(m, h.cb, n)
         IN  IF m1.cbs[h.cb].state = "freed"
             THEN LET m2 == [m1 EXCEPT !.ev[h.cb] = Append(@, "read_freed")]
                  IN  IF zeros THEN delete_cb(m2, h.cb) ELSE m2
             ELSE IF cb_use_count(m1, h.cb) = 0 /\ weak_count(m1, h.cb) = 0
                  THEN delete_cb(m1, h.cb)
                  ELSE m1
    ELSE m

\* s->self = s;  the member takes a weak reference on the block of s.
EmbedObserver(s) ==
    /\ inflight.op = "none" /\ thr.lk = "idle" /\ thr.dt = "idle"
    /\ s.cb # nullcb /\ get(s) # nullptr
    /\ held[s.cb] = 0
    /\ Teardowns(Mem, s.cb) = 0
    /\ SetMem(weak_from_shared(Mem, s).m)
    /\ held' = [held EXCEPT ![s.cb] = 1]
    /\ last' = "embed_observer"
    /\ UNCHANGED <<sp, wp, inflight, thr>>

\* s goes out of scope; the value may hold its member.
NestedDtor(s, zeros) ==
    /\ inflight.op = "none" /\ thr.lk = "idle" /\ thr.dt = "idle"
    /\ SetMem(shared_dtor_nested(Mem, s, IF s.cb # nullcb THEN held[s.cb] ELSE 0, zeros))
    /\ sp' = Remove(sp, s)
    /\ held' = IF s.cb # nullcb /\ cb_use_count(Mem, s.cb) = 1
               THEN [held EXCEPT ![s.cb] = 0]
               ELSE held
    /\ last' = "nested_dtor"
    /\ UNCHANGED <<wp, inflight, thr>>

\* Every operation except the direct construction of a shared_ptr from a
\* weak_ptr (the client promotes observers through lock() only) and except
\* a make_shared whose value fails to construct, which leaves nothing but a
\* block that was allocated and given back and that no handle refers to.
NextLock ==
    \/ SharedDefault
    \/ SharedFromRaw
    \/ SharedFromRawThrow
    \/ MakeShared
    \/ \E s \in Owners : SharedCopy(s)
    \/ \E s \in Owners : SharedMove(s)
    \/ \E s \in Owners : SharedAlias(s)
    \/ \E s \in Owners : SharedDtor(s)
    \/ \E a, b \in Owners, self \in BOOLEAN : SharedAssign(a, b, self)
    \/ \E a, b \in Owners, self \in BOOLEAN : SharedMoveAssign(a, b, self)
    \/ \E a \in Owners : Reset(a)
    \/ \E a \in Owners : ResetPtr(a)
    \/ \E a \in Owners : ResetPtrThrow(a)
    \/ WeakDefault
    \/ \E s \in Owners : WeakFromShared(s)
    \/ \E w \in Observers : WeakCopy(w)
    \/ \E w \in Observers : WeakMove(w)
    \/ \E w \in Observers : WeakDtor(w)
    \/ \E a, b \in Observers, self \in BOOLEAN : WeakAssign(a, b, self)
    \/ \E a, b \in Observers, self \in BOOLEAN : WeakMoveAssign(a, b, self)
    \/ \E w \in Observers : Lock(w)

\* The operations of NextLock and the failing make_shared.
NextThrow ==
    \/ NextLock
    \/ MakeSharedThrow

\* Every public operation.
Next ==
    \/ NextThrow
    \/ \E w \in Observers : SharedFromWeak(w)

Spec == Init /\ [][Next]_vars

SpecLock == Init /\ [][NextLock]_vars

SpecThrow == Init /\ [][NextThrow]_vars

\* The single-threaded client, with reset(p, deleter) also run step by step.
NextReset ==
    \/ NextLock
    \/ \E a \in Owners : ResetPtrConstruct(a)
    \/ ResetPtrSwap
    \/ ResetPtrDestroyTmp

SpecReset == Init /\ [][NextReset]_vars

\* Two threads: handles are made and observers destroyed while both threads
\* are outside lock() and ~shared_ptr(), and the steps of the two calls
\* interleave freely.
NextRace ==
    \/ SharedFromRaw
    \/ MakeShared
    \/ \E s \in Owners : SharedCopy(s)
    \/ \E s \in Owners : WeakFromShared(s)
    \/ \E w \in Observers : WeakDtor(w)
    \/ \E w \in Observers : LockCheck(w)
    \/ LockPromote
    \/ \E s \in Owners : DtorDecrement(s)
    \/ DtorTest
    \/ DtorCheck

SpecRace == Init /\ [][NextRace]_vars

\* A single thread whose values can observe themselves.
NextNested ==
    \/ SharedFromRaw
    \/ MakeShared
    \/ \E s \in Owners : SharedCopy(s)
    \/ \E s \in Owners : WeakFromShared(s)
    \/ \E w \in Observers : WeakDtor(w)
    \/ \E s \in Owners : EmbedObserver(s)
    \/ \E s \in Owners, zeros \in BOOLEAN : NestedDtor(s, zeros)

SpecNested == Init /\ [][NextNested]_vars

\* ------------------------------------------------------------ sanity
TypeOK ==
    /\ \A b \in Blocks : cbs[b].ref_cnt >= 0 /\ cbs[b].weak_cnt >= 0
    /\ \A h \in Owners \cup Observers : h.cb \in {nullcb} \cup Blocks

\* No handle refers to a control block that has been freed or never existed.
NoDangling ==
    \A h \in Owners \cup Observers : h.cb # nullcb => cbs[h.cb].state = "live"

\* ------------------------------------------------------------ claims
\* Number of handle objects of bag B that refer to control block b.
HandlesOn(B, b) ==
    LET S == {h \in BagToSet(B) : h.cb = b}
    IN  BagCardinality([h \in S |-> B[h]])

\* delete_object runs on block b so far.
TD(b) == Teardowns(Mem, b)

IsLive(b) == cbs[b].state = "live"

IsFreed(b) == cbs[b].state = "freed"

\* C1: the payload of a block is destroyed at most once, and never while an
\* owning handle on the block is alive (the original claim; the code breaks
\* it through shared_ptr(const weak_ptr&) on an expired observer).
C1_PayloadDestroyedOnce ==
    \A b \in Blocks :
        /\ TD(b) <= 1
        /\ HandlesOn(sp, b) > 0 => TD(b) = 0
        /\ cbs[b].kind = "cb_ptr" => deleterCalls[b] <= 1

\* C2: a control block is freed at most once, only by a decrement that leaves
\* both counts 0, and exactly then: a live block has a nonzero count, a freed
\* block has none; when the strong count reaches 0 with observers left the
\* payload is destroyed and the block stays allocated.
C2_Inv ==
    \A b \in Blocks :
        /\ Frees(Mem, b) <= 1
        /\ IsFreed(b) => cbs[b].ref_cnt = 0 /\ cbs[b].weak_cnt = 0
        /\ IsLive(b) => cbs[b].ref_cnt > 0 \/ cbs[b].weak_cnt > 0

C2_Step ==
    \A b \in Blocks :
        /\ IsLive(b) /\ IsFreed(b)' =>
              /\ cbs'[b].ref_cnt = 0 /\ cbs'[b].weak_cnt = 0
              /\ \/ cbs'[b].ref_cnt = cbs[b].ref_cnt - 1 /\ cbs'[b].weak_cnt = cbs[b].weak_cnt
                 \/ cbs'[b].weak_cnt = cbs[b].weak_cnt - 1 /\ cbs'[b].ref_cnt = cbs[b].ref_cnt
        /\ IsLive(b) /\ cbs[b].ref_cnt > 0 /\ cbs'[b].ref_cnt = 0 /\ cbs'[b].weak_cnt > 0 =>
              /\ TD(b)' = TD(b) + 1
              /\ IsLive(b)'

C2_BlockFreedOnce == [](C2_Inv) /\ [][C2_Step]_vars

\* The payload is gone, the block survives for its observer.
C2_Witness ==
    \E b \in Blocks :
        /\ last = "shared_dtor"
        /\ IsLive(b) /\ cbs[b].ref_cnt = 0 /\ cbs[b].weak_cnt > 0 /\ TD(b) = 1

\* C3: use_count() of an owning handle with a control block is the number of
\* live owning handles on that block; use_count() of an empty handle is 0.
C3_UseCountIsOwners ==
    \A h \in Owners :
        use_count(Mem, h) = IF h.cb = nullcb THEN 0 ELSE HandlesOn(sp, h.cb)

\* Two owners are left after one of three was destroyed.
C3_Witness ==
    /\ last = "shared_dtor"
    /\ \E h \in Owners : h.cb # nullcb /\ CopiesIn(h, sp) = 2 /\ use_count(Mem, h) = 2

\* C4: lock() yields a handle on the observer's block with use_count() one
\* above the strong count before the call exactly when the observer has a
\* block with a nonzero strong count; otherwise it yields an empty handle
\* (use_count() 0, null get()) and changes no count and destroys nothing.
C4_Step ==
    \A w \in Observers :
        Lock(w) =>
            \E h \in BagToSet(sp') :
                /\ sp' = Add(sp, h)
                /\ IF w.cb # nullcb /\ cbs[w.cb].ref_cnt # 0
                   THEN /\ h.cb = w.cb
                        /\ use_count(Mem, h)' = cbs[w.cb].ref_cnt + 1
                        /\ get(h) = w.ptr
                   ELSE /\ h.cb = nullcb
                        /\ use_count(Mem, h)' = 0
                        /\ get(h) = nullptr
                        /\ UNCHANGED <<cbs, deleterCalls, events>>

C4_Lock == [][C4_Step]_vars

\* lock() on an expired observer has returned an empty handle, and the
\* payload has been destroyed once.
C4_Witness ==
    /\ last = "lock"
    /\ shared_default \in Owners
    /\ \E w \in Observers :
          w.cb # nullcb /\ cbs[w.cb].ref_cnt = 0 /\ TD(w.cb) = 1 /\ HandlesOn(sp, w.cb) = 0

\* C5: the aliasing constructor yields a handle whose get() is the given
\* target, with a true boolean conversion (the original claim; in the code
\* the member ptr is never assigned the target).
C5_Step ==
    \A s \in Owners :
        SharedAlias(s) =>
            \E h \in BagToSet(sp') :
                /\ sp' = Add(sp, h)
                /\ get(h) = AliasTarget(s)
                /\ operator_bool(h)

C5_AliasGet == [][C5_Step]_vars

\* C6: an alias of a non-empty source shares the source's block and raises
\* the strong count by one, so both report one use_count(); no step that
\* leaves an owner on a block destroys its payload or frees it; the release
\* of the last owner destroys the payload.
C6_Step ==
    /\ \A s \in Owners :
          s.cb # nullcb /\ SharedAlias(s) =>
              \E h \in BagToSet(sp') :
                  /\ sp' = Add(sp, h)
                  /\ h.cb = s.cb
                  /\ cbs'[s.cb].ref_cnt = cbs[s.cb].ref_cnt + 1
                  /\ cbs'[s.cb].weak_cnt = cbs[s.cb].weak_cnt
                  /\ use_count(Mem, h)' = use_count(Mem, s)'
    /\ \A b \in Blocks :
          /\ HandlesOn(sp, b)' > 0 => TD(b)' = TD(b) /\ ~IsFreed(b)'
          /\ IsLive(b) /\ cbs[b].ref_cnt = 1 /\ cbs'[b].ref_cnt = 0 => TD(b)' = TD(b) + 1

C6_AliasKeepsAlive == [][C6_Step]_vars

\* The alias is the only owner left after the source was destroyed, and the
\* payload is intact.  (An owner with a block and a null get() stems from
\* the aliasing constructor.)
C6_Witness ==
    /\ last = "shared_dtor"
    /\ \E h \in Owners :
          /\ h.cb # nullcb /\ h.ptr = nullptr
          /\ HandlesOn(sp, h.cb) = 1 /\ cbs[h.cb].ref_cnt = 1
          /\ TD(h.cb) = 0 /\ IsLive(h.cb)

\* The counts of every block are as before, but for one reference of kind
\* strong/weak released on block rel (nullcb: none released).
CountsButRelease(rel, strong) ==
    \A c \in Blocks :
        /\ cbs'[c].ref_cnt = cbs[c].ref_cnt - (IF strong /\ c = rel THEN 1 ELSE 0)
        /\ cbs'[c].weak_cnt = cbs[c].weak_cnt - (IF ~strong /\ c = rel THEN 1 ELSE 0)

IsEmpty(h) == h.cb = nullcb /\ h.ptr = nullptr

\* Bag B2 is bag B1 with the objects in gone replaced by a moved-from object
\* that is empty and an object that holds the fields of src.
Moved(B1, B2, gone, src) ==
    \E e, d \in BagToSet(B2) :
        /\ B2 = Add(Add(B1 (-) gone, e), d)
        /\ IsEmpty(e)
        /\ d.cb = src.cb /\ d.ptr = src.ptr

C7_MoveCtors ==
    /\ \A s \in Owners :
          SharedMove(s) =>
              /\ Moved(sp, sp', SetToBag({s}), s)
              /\ CountsButRelease(nullcb, TRUE)
              /\ UNCHANGED <<events, deleterCalls>>
    /\ \A w \in Observers :
          WeakMove(w) =>
              /\ Moved(wp, wp', SetToBag({w}), w)
              /\ CountsButRelease(nullcb, FALSE)
              /\ UNCHANGED <<events, deleterCalls>>

C7_MoveAssignDistinct ==
    /\ \A a, b \in Owners :
          SharedMoveAssign(a, b, FALSE) =>
              /\ Moved(sp, sp', SetToBag({a}) (+) SetToBag({b}), b)
              /\ CountsButRelease(a.cb, TRUE)
    /\ \A a, b \in Observers :
          WeakMoveAssign(a, b, FALSE) =>
              /\ Moved(wp, wp', SetToBag({a}) (+) SetToBag({b}), b)
              /\ CountsButRelease(a.cb, FALSE)

\* C7, as claimed: also a = std::move(a) leaves the source empty and
\* releases one reference of the block the destination had.
C7_SelfAsClaimed ==
    /\ \A a \in Owners :
          SharedMoveAssign(a, a, TRUE) =>
              /\ \E e \in BagToSet(sp') : sp' = Add(Remove(sp, a), e) /\ IsEmpty(e)
              /\ CountsButRelease(a.cb, TRUE)
    /\ \A a \in Observers :
          WeakMoveAssign(a, a, TRUE) =>
              /\ \E e \in BagToSet(wp') : wp' = Add(Remove(wp, a), e) /\ IsEmpty(e)
              /\ CountsButRelease(a.cb, FALSE)

C7_MoveLeavesSourceEmpty ==
    [][C7_MoveCtors /\ C7_MoveAssignDistinct /\ C7_SelfAsClaimed]_vars

\* C7, amended: a = std::move(a) leaves the handle and every count as they
\* were.
C7_SelfUnchanged ==
    /\ \A a \in Owners :
          SharedMoveAssign(a, a, TRUE) =>
              /\ sp' = sp
              /\ CountsButRelease(nullcb, TRUE)
              /\ UNCHANGED <<events, deleterCalls>>
    /\ \A a \in Observers :
          WeakMoveAssign(a, a, TRUE) =>
              /\ wp' = wp
              /\ CountsButRelease(nullcb, FALSE)
              /\ UNCHANGED <<events, deleterCalls>>

\* C7 (amended): move construction, and move assignment between two
\* different handle objects, leave the source empty, give the destination
\* the source's block and pointer, change no count of the moved block but
\* for the one reference move assignment releases on the destination's
\* previous block; self-move-assignment changes nothing.
C7_MoveAmended ==
    [][C7_MoveCtors /\ C7_MoveAssignDistinct /\ C7_SelfUnchanged]_vars

\* a = std::move(b) with a and b on two blocks: a's block lost its only
\* owner and was freed, a owns b's block alone, b is empty.
C7_Witness ==
    /\ last = "shared_move_assign"
    /\ shared_default \in Owners
    /\ \E b1, b2 \in Blocks :
          /\ b1 # b2
          /\ IsFreed(b1)
          /\ IsLive(b2) /\ cbs[b2].ref_cnt = 1 /\ HandlesOn(sp, b2) = 1

\* C8: when the allocation of the control block fails in the raw-pointer
\* constructor, the deleter has run once on the pointer when the exception
\* leaves, and no handle and no control block came into existence.
C8_Step ==
    last' = "shared_from_raw_throw" =>
        /\ argDeleted' = 1
        /\ sp' = sp
        /\ UNCHANGED <<cbs, events, deleterCalls, wp>>

C8_ThrowRunsDeleter == [][C8_Step]_vars

C8_Witness ==
    /\ last = "shared_from_raw_throw"
    /\ argDeleted = 1
    /\ sp = EmptyBag
    /\ \A b \in Blocks : cbs[b].state = "unalloc"

\* C9: make_shared allocates once and returns the sole owner with a non-null
\* get(); the release of the last owner of a cb_obj block runs the value's
\* teardown and then, if no observer is left, the one deallocation; with
\* observers left the block stays allocated until the last observer goes.
IsObj(b) == cbs[b].kind = "cb_obj"

C9_Step ==
    /\ MakeShared =>
          \E b \in Blocks :
              /\ b = FreshBlock(Mem)
              /\ events'[b] = <<"alloc">>
              /\ \A c \in Blocks \ {b} : events'[c] = events[c]
              /\ \E h \in BagToSet(sp') :
                    /\ sp' = Add(sp, h)
                    /\ h.cb = b /\ IsObj(b)'
                    /\ use_count(Mem, h)' = 1
                    /\ get(h) # nullptr
    /\ \A b \in Blocks :
          /\ IsLive(b) /\ IsObj(b) /\ cbs[b].ref_cnt = 1 /\ cbs'[b].ref_cnt = 0 =>
                IF cbs[b].weak_cnt = 0
                THEN events'[b] = events[b] \o <<"delete_object", "free">>
                ELSE events'[b] = events[b] \o <<"delete_object">> /\ IsLive(b)'
          /\ IsLive(b) /\ IsObj(b) /\ cbs[b].ref_cnt = 0 /\ cbs[b].weak_cnt = 1
                /\ cbs'[b].weak_cnt = 0 /\ cbs'[b].ref_cnt = 0 =>
                events'[b] = Append(events[b], "free")
          /\ IsObj(b)' /\ IsLive(b)' /\ cbs'[b].weak_cnt > 0 => events'[b][Len(events'[b])] # "free"

C9_MakeShared == [][C9_Step]_vars

\* A make_shared block whose value was torn down at the last owner's release
\* and whose storage was freed by the last observer's release.
C9_Witness ==
    /\ last = "weak_dtor"
    /\ \E b \in Blocks : IsObj(b) /\ events[b] = <<"alloc", "delete_object", "free">>

\* C10: once the strong count of an allocated block is 0 no operation raises
\* it (the original claim; shared_ptr(const weak_ptr&) raises it).
C10_Step ==
    \A b \in Blocks : IsLive(b) /\ cbs[b].ref_cnt = 0 => cbs'[b].ref_cnt = 0

C10_StrongCountStaysZero == [][C10_Step]_vars

\* C11: constructing an observer from an owner, copying, moving, assigning
\* and destroying observers leave the strong count of every block, the
\* owners and every payload as they were: no delete_object and no deleter
\* runs in any of these operations.
WeakOps ==
    {"weak_from_shared", "weak_copy", "weak_move", "weak_dtor", "weak_assign",
     "weak_assign_self", "weak_move_assign", "weak_move_assign_self"}

C11_Step ==
    last' \in WeakOps =>
        /\ sp' = sp
        /\ deleterCalls' = deleterCalls
        /\ \A b \in Blocks :
              /\ cbs'[b].ref_cnt = cbs[b].ref_cnt
              /\ cbs'[b].ptr = cbs[b].ptr
              /\ TD(b)' = TD(b)

C11_WeakOpsKeepStrong == [][C11_Step]_vars

\* An observer was assigned over while its block had one owner and another
\* observer: the payload is intact.
C11_Witness ==
    /\ last = "weak_assign"
    /\ \E b \in Blocks : /\ IsLive(b) /\ cbs[b].ref_cnt = 1 /\ cbs[b].weak_cnt = 2
                         /\ TD(b) = 0 /\ HandlesOn(sp, b) = 1

\* C12: the weak count of an allocated block is the number of live observers
\* on it, and no weak count is below 0.
C12_WeakCountIsObservers ==
    /\ \A b \in Blocks : IsLive(b) => cbs[b].weak_cnt = HandlesOn(wp, b)
    /\ \A b \in Blocks : cbs[b].weak_cnt >= 0

\* Two observers on an expired block, after one of three was destroyed.
C12_Witness ==
    /\ last = "weak_dtor"
    /\ \E b \in Blocks : /\ IsLive(b) /\ cbs[b].ref_cnt = 0
                         /\ cbs[b].weak_cnt = 2 /\ HandlesOn(wp, b) = 2

\* Block b is as before but for one strong reference released: the payload
\* is torn down iff that was the last one, and the block is freed iff in
\* addition no observer is left.  Every other block is untouched.
ReleasedOneStrong(b) ==
    /\ cbs'[b].ref_cnt = cbs[b].ref_cnt - 1
    /\ cbs'[b].weak_cnt = cbs[b].weak_cnt
    /\ TD(b)' = TD(b) + (IF cbs[b].ref_cnt = 1 THEN 1 ELSE 0)
    /\ events'[b] = events[b]
                    \o (IF cbs[b].ref_cnt = 1 THEN <<"delete_object">> ELSE << >>)
                    \o (IF cbs[b].ref_cnt = 1 /\ cbs[b].weak_cnt = 0 THEN <<"free">> ELSE << >>)
    /\ IsFreed(b)' <=> (cbs[b].ref_cnt = 1 /\ cbs[b].weak_cnt = 0)
    /\ IsLive(b)

\* C13: reset() leaves the handle empty (no block, get() null, use_count() 0)
\* and releases one strong reference of the block it had: the payload is
\* destroyed iff it was the last owner and the block is freed iff moreover no
\* observer remains; on an empty handle nothing changes.
C13_Step ==
    \A a \in Owners :
        Reset(a) =>
            /\ \E e \in BagToSet(sp') :
                  /\ sp' = Add(Remove(sp, a), e)
                  /\ e.cb = nullcb /\ get(e) = nullptr /\ use_count(Mem, e)' = 0
            /\ wp' = wp
            /\ IF a.cb = nullcb
               THEN sp' = sp /\ UNCHANGED <<cbs, events, deleterCalls>>
               ELSE /\ ReleasedOneStrong(a.cb)
                    /\ \A c \in Blocks \ {a.cb} : cbs'[c] = cbs[c] /\ events'[c] = events[c]

C13_Reset == [][C13_Step]_vars

\* reset() of the sole owner of a raw-pointer block without observers: the
\* deleter ran once and the block is gone.
C13_Witness ==
    /\ last = "reset"
    /\ \E b \in Blocks : /\ events[b] = <<"alloc", "delete_object", "free">>
                         /\ cbs[b].kind = "cb_ptr" /\ deleterCalls[b] = 1
    /\ sp = SetToBag({shared_default})
    /\ wp = EmptyBag

\* C18: a = b takes b's reference before it releases a's.  When a and b are
\* one object or share a block, the counts stay as they are and nothing is
\* torn down or freed, also at strong count 1; when they are on different
\* blocks b's block gains one strong reference and a's former block loses one.
C18_Step ==
    \A a, b \in Owners, self \in BOOLEAN :
        SharedAssign(a, b, self) =>
            /\ \E d \in BagToSet(sp') :
                  sp' = Add(Remove(sp, a), d) /\ d.cb = b.cb /\ d.ptr = b.ptr
            /\ wp' = wp
            /\ IF a.cb = b.cb
               THEN UNCHANGED <<cbs, events, deleterCalls>>
               ELSE /\ b.cb # nullcb =>
                          /\ cbs'[b.cb] = [cbs[b.cb] EXCEPT !.ref_cnt = @ + 1]
                          /\ events'[b.cb] = events[b.cb]
                    /\ a.cb # nullcb => ReleasedOneStrong(a.cb)
                    /\ \A c \in Blocks \ {a.cb, b.cb} :
                          cbs'[c] = cbs[c] /\ events'[c] = events[c]

C18_CopyAssign == [][C18_Step]_vars

\* The sole owner of a block was assigned to itself and the block is intact.
C18_Witness ==
    /\ last = "shared_assign_self"
    /\ \E h \in Owners : /\ h.cb # nullcb /\ HandlesOn(sp, h.cb) = 1
                         /\ cbs[h.cb].ref_cnt = 1 /\ IsLive(h.cb)
                         /\ events[h.cb] = <<"alloc">>

\* C19: when reset(p, deleter) fails to allocate the new control block, the
\* deleter has run once on p and the handle and its block are as before:
\* same block and pointer, same counts, payload not destroyed.
C19_Step ==
    \A a \in Owners :
        ResetPtrThrow(a) =>
            /\ argDeleted' = 1
            /\ sp' = sp /\ a \in BagToSet(sp')
            /\ wp' = wp
            /\ UNCHANGED <<cbs, events, deleterCalls>>

C19_ResetPtrThrow == [][C19_Step]_vars

\* The failed reset(p, deleter) of the sole owner of a live block.
C19_Witness ==
    /\ last = "reset_ptr_throw"
    /\ argDeleted = 1
    /\ \E h \in Owners : /\ h.cb # nullcb /\ cbs[h.cb].ref_cnt = 1 /\ IsLive(h.cb)
                         /\ TD(h.cb) = 0 /\ get(h) # nullptr

\* C15: when the value's constructor fails in make_shared after the block was
\* allocated, the allocation is given back before the exception leaves,
\* delete_object never runs on the unconstructed storage, and no handle comes
\* into existence; nothing else is touched.
C15_Step ==
    MakeSharedThrow =>
        \E b \in Blocks :
            /\ b = FreshBlock(Mem)
            /\ events'[b] = <<"alloc", "dealloc">>
            /\ cbs'[b].state = "released"
            /\ TD(b)' = 0 /\ deleterCalls'[b] = 0 /\ Frees(Mem, b)' = 0
            /\ sp' = sp /\ wp' = wp
            /\ HandlesOn(sp', b) = 0 /\ HandlesOn(wp', b) = 0
            /\ \A c \in Blocks \ {b} : cbs'[c] = cbs[c] /\ events'[c] = events[c]

\* Nothing ever happens to a block whose value failed to construct.
C15_Inv ==
    \A b \in Blocks :
        cbs[b].state = "released" =>
            /\ events[b] = <<"alloc", "dealloc">>
            /\ HandlesOn(sp, b) = 0 /\ HandlesOn(wp, b) = 0

C15_MakeSharedThrow == [](C15_Inv) /\ [][C15_Step]_vars

\* A failed make_shared beside a live owner: the second block was allocated
\* and given back, and no handle refers to it.
C15_Witness ==
    /\ last = "make_shared_throw"
    /\ \E b, c \in Blocks :
          /\ cbs[b].state = "released" /\ events[b] = <<"alloc", "dealloc">>
          /\ IsLive(c) /\ HandlesOn(sp, c) = 1 /\ HandlesOn(sp, b) = 0

\* C14: reset(p, deleter) makes the handle the sole owner of a new raw-pointer
\* block (use_count() 1, get() the new pointer) and releases one strong
\* reference of the block it had; the new block is allocated in a step in
\* which the previous block is untouched, and the release comes last; the
\* other handles on the previous block keep their fields and see use_count()
\* one lower.
C14_Construct ==
    \A a \in Owners :
        ResetPtrConstruct(a) =>
            \E n \in Blocks :
                /\ n = FreshBlock(Mem)
                /\ IsLive(n)' /\ cbs'[n].kind = "cb_ptr"
                /\ cbs'[n].ref_cnt = 1 /\ cbs'[n].weak_cnt = 0
                /\ events'[n] = <<"alloc">>
                /\ \A c \in Blocks \ {n} : cbs'[c] = cbs[c] /\ events'[c] = events[c]
                /\ sp' = sp /\ wp' = wp /\ deleterCalls' = deleterCalls

C14_Swap ==
    ResetPtrSwap =>
        /\ sp' = Add(Remove(sp, inflight.this), inflight.tmp)
        /\ wp' = wp
        /\ UNCHANGED <<cbs, events, deleterCalls>>

\* The other owners of block b keep their fields and see use_count() go
\* down by one.
OthersSeeOneLess(others, b) ==
    \A g \in BagToSet(others) :
        g.cb = b => /\ CopiesIn(g, sp') >= CopiesIn(g, others)
                    /\ use_count(Mem, g)' = use_count(Mem, g) - 1

C14_DestroyTmp ==
    ResetPtrDestroyTmp =>
        \E new \in {inflight.this}, old \in {inflight.tmp} :
            /\ sp' = sp /\ wp' = wp
            /\ new \in BagToSet(sp')
            /\ get(new) = Heap(new.cb)
            /\ use_count(Mem, new)' = 1
            /\ HandlesOn(sp', new.cb) = 1
            /\ cbs'[new.cb] = cbs[new.cb]
            /\ old.cb # nullcb =>
                  /\ ReleasedOneStrong(old.cb)
                  /\ OthersSeeOneLess(sp, old.cb)
            /\ \A c \in Blocks \ {old.cb} : cbs'[c] = cbs[c] /\ events'[c] = events[c]

\* The operation as a whole.
C14_Whole ==
    \A a \in Owners :
        ResetPtr(a) =>
            /\ \E h \in BagToSet(sp') :
                  /\ sp' = Add(Remove(sp, a), h)
                  /\ h.cb = FreshBlock(Mem) /\ get(h) = Heap(h.cb)
                  /\ use_count(Mem, h)' = 1
                  /\ HandlesOn(sp', h.cb) = 1
                  /\ events'[h.cb] = <<"alloc">>
            /\ wp' = wp
            /\ a.cb # nullcb =>
                  /\ ReleasedOneStrong(a.cb)
                  /\ OthersSeeOneLess(Remove(sp, a), a.cb)
            /\ \A c \in Blocks \ {a.cb, FreshBlock(Mem)} :
                  cbs'[c] = cbs[c] /\ events'[c] = events[c]

\* Between the steps the new block exists and the previous block still has
\* the reference of *this.
C14_Between ==
    inflight.op # "none" =>
        LET new == IF inflight.op = "constructed" THEN inflight.tmp ELSE inflight.this
            old == IF inflight.op = "constructed" THEN inflight.this ELSE inflight.tmp
        IN  /\ IsLive(new.cb) /\ cbs[new.cb].ref_cnt = 1 /\ new.cb # old.cb
            /\ old.cb # nullcb =>
                  /\ IsLive(old.cb) /\ TD(old.cb) = 0
                  /\ cbs[old.cb].ref_cnt =
                        HandlesOn(sp, old.cb) + (IF inflight.op = "swapped" THEN 1 ELSE 0)
                  /\ cbs[old.cb].ref_cnt >= 1

C14_ResetPtr ==
    /\ [](C14_Between)
    /\ [][C14_Construct /\ C14_Swap /\ C14_DestroyTmp /\ C14_Whole]_vars

\* The temporary owns the new block while the sole owner of the previous
\* block has not yet let go of it.
C14_Witness ==
    /\ inflight.op = "constructed"
    /\ inflight.this.cb # nullcb /\ inflight.tmp.cb # nullcb
    /\ cbs[inflight.this.cb].ref_cnt = 1 /\ IsLive(inflight.this.cb)
    /\ TD(inflight.this.cb) = 0
    /\ cbs[inflight.tmp.cb].ref_cnt = 1 /\ IsLive(inflight.tmp.cb)

\* C16: with lock() in one thread and the destruction of the last owner in
\* another, not synchronized, the payload can be destroyed between the test
\* of use_count() in lock() and its add_ref; whenever that happens lock()
\* still returns a non-empty owner of the block, which takes the strong
\* count from 0 to 1 on a payload that is already destroyed.
C16_Step ==
    LockPromote =>
        \E w \in {thr.lw}, td0 \in {thr.ltd} :
            /\ w.cb # nullcb
            /\ \E h \in BagToSet(sp') :
                  /\ sp' = Add(sp, h)
                  /\ h.cb = w.cb /\ get(h) = w.ptr /\ get(h) # nullptr
                  /\ use_count(Mem, h)' = cbs[w.cb].ref_cnt + 1
            /\ TD(w.cb)' = TD(w.cb)
            /\ IsLive(w.cb)'
            /\ IF TD(w.cb) > td0
               THEN cbs[w.cb].ref_cnt = 0 /\ cbs'[w.cb].ref_cnt = 1 /\ TD(w.cb)' >= 1
               ELSE cbs[w.cb].ref_cnt >= 0 /\ TD(w.cb)' = td0

C16_LockRace == [][C16_Step]_vars

\* lock() has returned the only owner of a block whose payload was intact at
\* the test and destroyed by the time of the add_ref.
C16_Witness ==
    /\ last = "lock_promote"
    /\ thr.ltd = 0
    /\ \E h \in Owners : /\ h.cb # nullcb /\ h.cb = thr.lw.cb
                         /\ TD(h.cb) = 1 /\ cbs[h.cb].ref_cnt = 1
                         /\ HandlesOn(sp, h.cb) = 1 /\ IsLive(h.cb)
                         /\ operator_bool(h)

\* Reads of the counts of block b made after b was freed.
ReadsFreed(b) == Cardinality({i \in 1..Len(events[b]) : events[b][i] = "read_freed"})

\* C17: when the teardown of the payload inside release_ref releases the last
\* observer of the same block, the block is freed once and its counts are not
\* read after it was freed (the original claim; ~shared_ptr reads both counts
\* of the block the nested ~weak_ptr has freed, and may free it again).
C17_NestedReleaseSafe ==
    \A b \in Blocks : Frees(Mem, b) <= 1 /\ ReadsFreed(b) = 0

====
